---- MODULE Spec2Model ----
(***************************************************************************)
(* Student Marks Management System.                                        *)
(*                                                                         *)
(* Two programs are modelled:                                              *)
(*   mode = "memory"  StudentMarksManager   (student_mark_manager.py)      *)
(*   mode = "db"      StudentMarksManagerDB (student_mark_manager_mysql.py)*)
(* Spec     : either manager, driven by arbitrary calls of its methods.    *)
(* SpecMain : main() of the MySQL version, the one-shot batch.             *)
(*                                                                         *)
(* Numbers returned by the averages are exact rationals <<num, den>> in    *)
(* lowest terms, so that two values are equal exactly when Python's ==     *)
(* finds them equal (0 == 0.0).                                            *)
(***************************************************************************)
EXTENDS Integers, Sequences, FiniteSets, TLC

\* Largest number of records the in-memory list is let grow to.
MaxLen == 3

\* Inputs of add_student.
RollNos == {101, 102}
Names == {"Alice Johnson", "Bob Smith"}
Subjects == {"Mathematics", "Physics"}
MarksDom == {0, 95}

\* Subjects in the order of SQL's ORDER BY subject.
SubjectOrder == <<"Chemistry", "Mathematics", "Physics">>

VARIABLES
    mode,          \* "memory" | "db": which program runs
    students,      \* memory: self.students, the list of dicts
    connection,    \* db: self.connection is not None
    cursor,        \* db: self.cursor is not None
    hasTable,      \* db: the students table exists
    table,         \* db: rows of the students table, in id (insertion) order
    op,            \* the method called last
    arg,           \* its roll_no argument (0: none)
    ret,           \* what it returned
    raised,        \* the mysql Error its except branch caught ("none": none)
    printed,       \* the data it printed
    lastAdded,     \* the record passed to the last add_student
    pc,            \* main(): position
    idx,           \* main(): index into sample_students
    success_count, \* main(): success_count
    executed       \* main(): the manager methods called so far

vars == <<mode, students, connection, cursor, hasTable, table, op, arg, ret,
          raised, printed, lastAdded, pc, idx, success_count, executed>>

mainVars == <<pc, idx, success_count, executed>>
dbVars == <<connection, cursor, hasTable, table>>

----------------------------------------------------------------------------
\* Values

NoneV == [kind |-> "None"]
StudentV(s) == [kind |-> "student", val |-> s]
NumV(q) == [kind |-> "number", val |-> q]
BoolV(b) == [kind |-> "bool", val |-> b]
\* An exception no handler of the program catches.
UncaughtV == [kind |-> "AttributeError"]

Abs(x) == IF x < 0 THEN -x ELSE x

RECURSIVE Gcd(_, _)
Gcd(a, b) == IF b = 0 THEN a ELSE Gcd(b, a % b)

\* n / d, in lowest terms (d > 0).
Rat(n, d) == LET g == Gcd(Abs(n), d) IN <<n \div g, d \div g>>

\* The integer 0 that the averages return for an empty store.
Zero == <<0, 1>>

\* f"{x:.2f}": x in hundredths, rounded to nearest, ties to even.
Format2f(q) ==
    LET n == 100 * q[1]
        d == q[2]
        lo == n \div d
        r2 == 2 * (n - lo * d)
    IN IF r2 < d THEN lo
       ELSE IF r2 > d THEN lo + 1
       ELSE IF lo % 2 = 0 THEN lo ELSE lo + 1

\* sum(...) over a list of marks
RECURSIVE SumSeq(_)
SumSeq(s) == IF s = <<>> THEN 0 ELSE s[1] + SumSeq(Tail(s))

\* max(...) and min(...) over a non-empty list of marks
MaxSeq(s) == CHOOSE m \in {s[k] : k \in 1..Len(s)} : \A k \in 1..Len(s) : s[k] <= m
MinSeq(s) == CHOOSE m \in {s[k] : k \in 1..Len(s)} : \A k \in 1..Len(s) : s[k] >= m

MarksOf(seq) == [k \in 1..Len(seq) |-> seq[k].marks]

----------------------------------------------------------------------------
\* StudentMarksManager (in memory)

MakeStudent(roll_no, name, subject, marks) ==
    [roll_no |-> roll_no, name |-> name, subject |-> subject, marks |-> marks]

\* Mutant of ListAppend: the record goes to the front of the list.
ListPrepend(list, student) == <<student>> \o list

\* self.students.append(student)
ListAppend(list, student) == Append(list, student)

\* Mutant of MaxByMarks: min() in place of max().
MinByMarks(list) ==
    LET best[k \in 1..Len(list)] ==
            IF k = 1 THEN list[1]
            ELSE IF list[k].marks < best[k - 1].marks THEN list[k]
                 ELSE best[k - 1]
    IN best[Len(list)]

\* max(self.students, key=lambda x: x['marks']): the first of the largest
MaxByMarks(list) ==
    LET best[k \in 1..Len(list)] ==
            IF k = 1 THEN list[1]
            ELSE IF list[k].marks > best[k - 1].marks THEN list[k]
                 ELSE best[k - 1]
    IN best[Len(list)]

\* Mutant of Average: the value is rounded to 2 digits before it is returned.
AverageRounded(list) ==
    Rat(Format2f(Rat(SumSeq(MarksOf(list)), Len(list))), 100)

\* total_marks / len(self.students)
Average(list) == Rat(SumSeq(MarksOf(list)), Len(list))

\* the loop of find_student_by_roll_no
FindByRollNo(list, roll_no) ==
    IF \E k \in 1..Len(list) : list[k].roll_no = roll_no
    THEN StudentV(list[CHOOSE k \in 1..Len(list) :
                          /\ list[k].roll_no = roll_no
                          /\ \A j \in 1..(k - 1) : list[j].roll_no # roll_no])
    ELSE NoneV

\* Mutant of DictAppend: the list is reset without the "not in" test.
DictResetAppend(subjects, subject, marks) ==
    IF \E k \in 1..Len(subjects) : subjects[k].subject = subject
    THEN [k \in 1..Len(subjects) |->
            IF subjects[k].subject = subject
            THEN [subjects[k] EXCEPT !.marks_list = <<marks>>]
            ELSE subjects[k]]
    ELSE Append(subjects, [subject |-> subject, marks_list |-> <<marks>>])

\* if subject not in subjects: subjects[subject] = []
\* subjects[subject].append(student['marks'])
DictAppend(subjects, subject, marks) ==
    IF \E k \in 1..Len(subjects) : subjects[k].subject = subject
    THEN [k \in 1..Len(subjects) |->
            IF subjects[k].subject = subject
            THEN [subjects[k] EXCEPT !.marks_list = Append(@, marks)]
            ELSE subjects[k]]
    ELSE Append(subjects, [subject |-> subject, marks_list |-> <<marks>>])

\* the dict built by the first loop of get_subject_wise_stats, in key order
SubjectsDict(list) ==
    LET d[k \in 0..Len(list)] ==
            IF k = 0 THEN <<>>
            ELSE DictAppend(d[k - 1], list[k].subject, list[k].marks)
    IN d[Len(list)]

\* what the second loop prints for one subject
StatLine(subject, marks_list) ==
    [subject |-> subject,
     avg |-> Rat(SumSeq(marks_list), Len(marks_list)),
     max_marks |-> MaxSeq(marks_list),
     min_marks |-> MinSeq(marks_list),
     count |-> Len(marks_list)]

SubjectStats(list) ==
    LET d == SubjectsDict(list)
    IN [k \in 1..Len(d) |-> StatLine(d[k].subject, d[k].marks_list)]

\* if not self.students: ... return None
EmptyHighest == NoneV

\* if not self.students: ... return 0   (also: if not result or result[0] == 0)
EmptyAverage == NumV(Zero)

Called(name, a, r, e, p) ==
    /\ op' = name
    /\ arg' = a
    /\ ret' = r
    /\ raised' = e
    /\ printed' = p

add_student(roll_no, name, subject, marks) ==
    /\ mode = "memory"
    /\ Len(students) < MaxLen
    /\ LET student == MakeStudent(roll_no, name, subject, marks)
       IN /\ students' = ListAppend(students, student)
          /\ lastAdded' = StudentV(student)
    /\ Called("add_student", roll_no, NoneV, "none", <<name>>)
    /\ UNCHANGED <<mode, dbVars, mainVars>>

display_all_students ==
    /\ mode = "memory"
    /\ Called("display_all_students", 0, NoneV, "none", students)
    /\ UNCHANGED <<mode, students, lastAdded, dbVars, mainVars>>

find_highest_marks ==
    /\ mode = "memory"
    /\ IF students = <<>>
       THEN Called("find_highest_marks", 0, EmptyHighest, "none", <<>>)
       ELSE LET top_student == MaxByMarks(students)
            IN Called("find_highest_marks", 0, StudentV(top_student), "none",
                      <<top_student>>)
    /\ UNCHANGED <<mode, students, lastAdded, dbVars, mainVars>>

calculate_average_marks ==
    /\ mode = "memory"
    /\ IF students = <<>>
       THEN Called("calculate_average_marks", 0, EmptyAverage, "none", <<>>)
       ELSE LET average == Average(students)
            IN Called("calculate_average_marks", 0, NumV(average), "none",
                      <<[count |-> Len(students),
                         total_marks |-> SumSeq(MarksOf(students)),
                         average2f |-> Format2f(average)]>>)
    /\ UNCHANGED <<mode, students, lastAdded, dbVars, mainVars>>

get_student_count ==
    /\ mode = "memory"
    /\ Called("get_student_count", 0, NumV(<<Len(students), 1>>), "none", <<>>)
    /\ UNCHANGED <<mode, students, lastAdded, dbVars, mainVars>>

find_student_by_roll_no(roll_no) ==
    /\ mode = "memory"
    /\ Called("find_student_by_roll_no", roll_no,
              FindByRollNo(students, roll_no), "none", <<>>)
    /\ UNCHANGED <<mode, students, lastAdded, dbVars, mainVars>>

get_subject_wise_stats ==
    /\ mode = "memory"
    /\ Called("get_subject_wise_stats", 0, NoneV, "none", SubjectStats(students))
    /\ UNCHANGED <<mode, students, lastAdded, dbVars, mainVars>>

----------------------------------------------------------------------------
\* StudentMarksManagerDB (MySQL)

\* What connect_and_setup leaves behind, by the statement that raised Error:
\*   "ok"            none
\*   "no_connection" a connect() or CREATE DATABASE: self.connection stays None
\*   "no_cursor"     self.connection.cursor(): self.cursor stays None
\*   "no_table"      CREATE TABLE or commit(): the table is not there
SetupOutcomes == {"ok", "no_connection", "no_cursor", "no_table"}

connect_and_setup(outcome) ==
    /\ connection' = (outcome # "no_connection")
    /\ cursor' = (outcome \in {"ok", "no_table"})
    /\ hasTable' = (outcome = "ok")

\* The mysql Error a statement raises before it touches any row.
StatementError(backend_ok) ==
    IF ~backend_ok THEN "OperationalError"
    ELSE IF ~hasTable THEN "ProgrammingError"
    ELSE "none"

\* Mutant of UniqueViolation: the column is not declared UNIQUE.
NoUniqueConstraint(rows, roll_no) == FALSE

\* roll_no INT UNIQUE NOT NULL
UniqueViolation(rows, roll_no) ==
    \E k \in 1..Len(rows) : rows[k].roll_no = roll_no

\* INSERT INTO students (roll_no, name, subject, marks) VALUES (...)
InsertRow(rows, row) == Append(rows, row)

RowSet(rows) == {rows[k] : k \in 1..Len(rows)}

\* The place of row i under ORDER BY roll_no (rows with the same roll_no, which
\* the UNIQUE column rules out, would keep their id order).
PlaceByRollNo(rows, i) ==
    1 + Cardinality({j \in 1..Len(rows) :
                        \/ rows[j].roll_no < rows[i].roll_no
                        \/ rows[j].roll_no = rows[i].roll_no /\ j < i})

\* SELECT ... FROM students ORDER BY roll_no
OrderByRollNo(rows) ==
    [k \in 1..Len(rows) |->
        rows[CHOOSE i \in 1..Len(rows) : PlaceByRollNo(rows, i) = k]]

\* SELECT ... FROM students ORDER BY marks DESC LIMIT 1: the rows the server may
\* return. Rows with equal marks come in an order the server is free to choose.
OrderByMarksDescLimit1(rows) ==
    {r \in RowSet(rows) : \A q \in RowSet(rows) : q.marks <= r.marks}

\* SELECT COUNT(*), SUM(marks), AVG(marks) FROM students
CountSumAvg(rows) ==
    [count |-> Len(rows),
     total_marks |-> SumSeq(MarksOf(rows)),
     average |-> IF rows = <<>> THEN Zero
                 ELSE Rat(SumSeq(MarksOf(rows)), Len(rows))]

\* SELECT subject, COUNT(*), AVG(marks), MAX(marks), MIN(marks)
\* FROM students GROUP BY subject ORDER BY subject
GroupBySubject(rows) ==
    LET present == SelectSeq(SubjectOrder,
                             LAMBDA s : \E k \in 1..Len(rows) : rows[k].subject = s)
        group(s) == MarksOf(SelectSeq(rows, LAMBDA r : r.subject = s))
    IN [k \in 1..Len(present) |-> StatLine(present[k], group(present[k]))]

\* self.cursor is None: self.cursor.execute raises AttributeError, which
\* "except Error" does not catch.
Uncaught(name, a) ==
    /\ Called(name, a, UncaughtV, "none", <<>>)
    /\ UNCHANGED <<table, lastAdded>>

DB_add_student_do(roll_no, name, subject, marks, backend_ok) ==
    LET row == MakeStudent(roll_no, name, subject, marks)
        e == IF StatementError(backend_ok) # "none" THEN StatementError(backend_ok)
             ELSE IF UniqueViolation(table, roll_no) THEN "IntegrityError"
             ELSE "none"
    IN IF ~cursor
       THEN Uncaught("add_student", roll_no)
       ELSE /\ lastAdded' = StudentV(row)
            /\ IF e = "none"
               THEN /\ table' = InsertRow(table, row)
                    /\ Called("add_student", roll_no, BoolV(TRUE), "none", <<name>>)
               ELSE /\ table' = table
                    /\ Called("add_student", roll_no, BoolV(FALSE), e, <<name>>)

DB_display_all_students_do(backend_ok) ==
    LET e == StatementError(backend_ok)
    IN IF ~cursor
       THEN Uncaught("display_all_students", 0)
       ELSE /\ IF e = "none"
               THEN Called("display_all_students", 0, NoneV, "none",
                           OrderByRollNo(table))
               ELSE Called("display_all_students", 0, NoneV, e, <<>>)
            /\ UNCHANGED <<table, lastAdded>>

DB_find_highest_marks_do(backend_ok) ==
    LET e == StatementError(backend_ok)
    IN IF ~cursor
       THEN Uncaught("find_highest_marks", 0)
       ELSE /\ IF e # "none"
               THEN Called("find_highest_marks", 0, NoneV, e, <<>>)
               ELSE IF table = <<>>
               THEN Called("find_highest_marks", 0, EmptyHighest, "none", <<>>)
               ELSE \E record \in OrderByMarksDescLimit1(table) :
                       Called("find_highest_marks", 0, StudentV(record), "none",
                              <<record>>)
            /\ UNCHANGED <<table, lastAdded>>

DB_calculate_average_marks_do(backend_ok) ==
    LET e == StatementError(backend_ok)
        result == CountSumAvg(table)
    IN IF ~cursor
       THEN Uncaught("calculate_average_marks", 0)
       ELSE /\ IF e # "none"
               THEN Called("calculate_average_marks", 0, NumV(Zero), e, <<>>)
               ELSE IF result.count = 0
               THEN Called("calculate_average_marks", 0, EmptyAverage, "none", <<>>)
               ELSE Called("calculate_average_marks", 0, NumV(result.average),
                           "none",
                           <<[count |-> result.count,
                              total_marks |-> result.total_marks,
                              average2f |-> Format2f(result.average)]>>)
            /\ UNCHANGED <<table, lastAdded>>

DB_get_subject_wise_stats_do(backend_ok) ==
    LET e == StatementError(backend_ok)
    IN IF ~cursor
       THEN Uncaught("get_subject_wise_stats", 0)
       ELSE /\ IF e = "none"
               THEN Called("get_subject_wise_stats", 0, NoneV, "none",
                           GroupBySubject(table))
               ELSE Called("get_subject_wise_stats", 0, NoneV, e, <<>>)
            /\ UNCHANGED <<table, lastAdded>>

\* Every branch of close_connection tests for None first: it never raises
\* AttributeError.
DB_close_connection_do(backend_ok) ==
    /\ Called("close_connection", 0, NoneV,
              IF backend_ok \/ ~connection THEN "none" ELSE "OperationalError",
              <<>>)
    /\ UNCHANGED <<table, lastAdded>>

InDB == mode = "db" /\ pc = "idle"
DBFrame == UNCHANGED <<mode, students, connection, cursor, hasTable, mainVars>>

DB_add_student(roll_no, name, subject, marks, backend_ok) ==
    InDB /\ DB_add_student_do(roll_no, name, subject, marks, backend_ok) /\ DBFrame

DB_display_all_students(backend_ok) ==
    InDB /\ DB_display_all_students_do(backend_ok) /\ DBFrame

DB_find_highest_marks(backend_ok) ==
    InDB /\ DB_find_highest_marks_do(backend_ok) /\ DBFrame

DB_calculate_average_marks(backend_ok) ==
    InDB /\ DB_calculate_average_marks_do(backend_ok) /\ DBFrame

DB_get_subject_wise_stats(backend_ok) ==
    InDB /\ DB_get_subject_wise_stats_do(backend_ok) /\ DBFrame

----------------------------------------------------------------------------
\* main() of the MySQL version

sample_students ==
    <<MakeStudent(101, "Alice Johnson", "Mathematics", 95),
      MakeStudent(102, "Bob Smith", "Physics", 87),
      MakeStudent(103, "Carol Davis", "Chemistry", 92),
      MakeStudent(104, "David Wilson", "Mathematics", 78),
      MakeStudent(105, "Emma Brown", "Physics", 89),
      MakeStudent(106, "Frank Miller", "Chemistry", 91),
      MakeStudent(107, "Grace Lee", "Mathematics", 96),
      MakeStudent(108, "Henry Clark", "Physics", 82),
      MakeStudent(109, "Ivy Martinez", "Chemistry", 88)>>

\* The rows an earlier run of the program left in the database: it inserts
\* sample_students in order and may have been stopped at any point.
EarlierRuns == {SubSeq(sample_students, 1, n) : n \in 0..Len(sample_students)}

\* sms_db = StudentMarksManagerDB(...)
MainConstruct ==
    /\ pc = "construct"
    /\ \E outcome \in SetupOutcomes :
          \* CREATE TABLE IF NOT EXISTS on a table that is there creates nothing
          /\ outcome = "no_table" => table = <<>>
          /\ connect_and_setup(outcome)
    /\ pc' = "check"
    /\ UNCHANGED <<mode, students, table, op, arg, ret, raised, printed,
                   lastAdded, idx, success_count, executed>>

\* if sms_db.connection is None: ... return
MainCheckConnection ==
    /\ pc = "check"
    /\ IF ~connection
       THEN pc' = "returned" /\ idx' = idx
       ELSE pc' = "add" /\ idx' = 1
    /\ UNCHANGED <<mode, students, dbVars, op, arg, ret, raised, printed,
                   lastAdded, success_count, executed>>

\* Mutant of AfterCall: an Error caught in a method ends the program too.
AfterCallStopOnError(next) ==
    pc' = IF ret'.kind = "AttributeError" \/ raised' # "none" THEN "crashed"
          ELSE next

\* Where main() goes after a call: an uncaught exception ends the program.
AfterCall(next) == pc' = IF ret'.kind = "AttributeError" THEN "crashed" ELSE next

\* for ... in sample_students: if sms_db.add_student(...): success_count += 1
MainAddStudent ==
    /\ pc = "add"
    /\ \E backend_ok \in BOOLEAN :
          LET s == sample_students[idx]
          IN DB_add_student_do(s.roll_no, s.name, s.subject, s.marks, backend_ok)
    /\ executed' = Append(executed, "add_student")
    /\ success_count' = IF ret' = BoolV(TRUE) THEN success_count + 1
                        ELSE success_count
    /\ idx' = idx + 1
    /\ AfterCall(IF idx = Len(sample_students) THEN "display" ELSE "add")
    /\ UNCHANGED <<mode, students, connection, cursor, hasTable>>

MainCall(at, name, next) ==
    /\ pc = at
    /\ executed' = Append(executed, name)
    /\ AfterCall(next)
    /\ UNCHANGED <<mode, students, connection, cursor, hasTable, idx,
                   success_count>>

MainDisplayAll ==
    /\ \E backend_ok \in BOOLEAN : DB_display_all_students_do(backend_ok)
    /\ MainCall("display", "display_all_students", "highest")

MainFindHighest ==
    /\ \E backend_ok \in BOOLEAN : DB_find_highest_marks_do(backend_ok)
    /\ MainCall("highest", "find_highest_marks", "average")

MainCalculateAverage ==
    /\ \E backend_ok \in BOOLEAN : DB_calculate_average_marks_do(backend_ok)
    /\ MainCall("average", "calculate_average_marks", "stats")

MainSubjectStats ==
    /\ \E backend_ok \in BOOLEAN : DB_get_subject_wise_stats_do(backend_ok)
    /\ MainCall("stats", "get_subject_wise_stats", "close")

MainCloseConnection ==
    /\ \E backend_ok \in BOOLEAN : DB_close_connection_do(backend_ok)
    /\ MainCall("close", "close_connection", "done")

InitMain ==
    /\ mode = "db"
    /\ students = <<>>
    /\ connection = FALSE
    /\ cursor = FALSE
    /\ hasTable = FALSE
    /\ table \in EarlierRuns
    /\ op = "main"
    /\ arg = 0
    /\ ret = NoneV
    /\ raised = "none"
    /\ printed = <<>>
    /\ lastAdded = NoneV
    /\ pc = "construct"
    /\ idx = 0
    /\ success_count = 0
    /\ executed = <<>>

NextMain ==
    \/ MainConstruct
    \/ MainCheckConnection
    \/ MainAddStudent
    \/ MainDisplayAll
    \/ MainFindHighest
    \/ MainCalculateAverage
    \/ MainSubjectStats
    \/ MainCloseConnection

\* main() is straight-line code: it takes its next step whenever it has one.
SpecMain == InitMain /\ [][NextMain]_vars /\ WF_vars(NextMain)

----------------------------------------------------------------------------

InitMemory ==
    /\ mode = "memory"
    /\ students = <<>>
    /\ connection = FALSE
    /\ cursor = FALSE
    /\ hasTable = FALSE
    /\ table = <<>>
    /\ op = "__init__"
    /\ arg = 0
    /\ ret = NoneV
    /\ raised = "none"
    /\ printed = <<>>
    /\ lastAdded = NoneV
    /\ pc = "idle"
    /\ idx = 0
    /\ success_count = 0
    /\ executed = <<>>

\* StudentMarksManagerDB.__init__ ends with connect_and_setup().
InitDB ==
    /\ mode = "db"
    /\ students = <<>>
    /\ \E outcome \in SetupOutcomes :
          /\ connection = (outcome # "no_connection")
          /\ cursor = (outcome \in {"ok", "no_table"})
          /\ hasTable = (outcome = "ok")
    /\ table = <<>>
    /\ op = "__init__"
    /\ arg = 0
    /\ ret = NoneV
    /\ raised = "none"
    /\ printed = <<>>
    /\ lastAdded = NoneV
    /\ pc = "idle"
    /\ idx = 0
    /\ success_count = 0
    /\ executed = <<>>

Init == InitMemory \/ InitDB

Next ==
    \/ \E roll_no \in RollNos, name \in Names, subject \in Subjects,
          marks \in MarksDom : add_student(roll_no, name, subject, marks)
    \/ display_all_students
    \/ find_highest_marks
    \/ calculate_average_marks
    \/ get_student_count
    \/ \E roll_no \in RollNos : find_student_by_roll_no(roll_no)
    \/ get_subject_wise_stats
    \/ \E roll_no \in RollNos, name \in Names, subject \in Subjects,
          marks \in MarksDom, backend_ok \in BOOLEAN :
          DB_add_student(roll_no, name, subject, marks, backend_ok)
    \/ \E backend_ok \in BOOLEAN : DB_display_all_students(backend_ok)
    \/ \E backend_ok \in BOOLEAN : DB_find_highest_marks(backend_ok)
    \/ \E backend_ok \in BOOLEAN : DB_calculate_average_marks(backend_ok)
    \/ \E backend_ok \in BOOLEAN : DB_get_subject_wise_stats(backend_ok)

Spec == Init /\ [][Next]_vars

----------------------------------------------------------------------------
\* Properties

\* The records of the manager that runs, in storage order.
Store == IF mode = "memory" THEN students ELSE table

\* all(): the store's enumeration order (display_all_students).
Enumeration == IF mode = "memory" THEN students ELSE OrderByRollNo(table)

\* The call returned: no except branch ran and no exception escaped.
Succeeded == raised = "none" /\ ret.kind # "AttributeError"

\* C1: on a non-empty store find_highest_marks returns a record of the store
\* whose marks are greater than or equal to the marks of every stored record.
C1_HighestIsMaximum ==
    (op = "find_highest_marks" /\ Store # <<>> /\ Succeeded) =>
        /\ ret.kind = "student"
        /\ \E k \in 1..Len(Store) : Store[k] = ret.val
        /\ \A k \in 1..Len(Store) : Store[k].marks <= ret.val.marks

C1_Witness ==
    /\ op = "find_highest_marks"
    /\ Len(Store) = MaxLen
    /\ ret.kind = "student"
    /\ Store[1].marks < ret.val.marks

\* C2: on an empty store find_highest_marks and calculate_average_marks return
\* something no successful call on a non-empty store returns.
C2_EmptyStoreDistinguishable ==
    (Store # <<>> /\ Succeeded) =>
        /\ op = "find_highest_marks" => ret # EmptyHighest
        /\ op = "calculate_average_marks" => ret # EmptyAverage

\* C3: in memory, find_student_by_roll_no with the roll number of the record
\* add_student stored last returns that record.
C3_RoundTrip ==
    (/\ mode = "memory"
     /\ op = "find_student_by_roll_no"
     /\ lastAdded.kind = "student"
     /\ arg = lastAdded.val.roll_no) =>
        ret.kind = "student" /\ ret.val = lastAdded.val

\* C4: in the database version add_student with a roll number that a row
\* already holds returns False after an Error and changes no row.
C4_DuplicateRejected ==
    [][(/\ mode = "db"
        /\ op' = "add_student"
        /\ \E k \in 1..Len(table) : table[k].roll_no = arg') =>
          /\ table' = table
          /\ ret'.kind = "bool" /\ ret'.val = FALSE
          /\ raised' \in {"IntegrityError", "OperationalError"}]_vars

C4_Witness ==
    /\ mode = "db"
    /\ op = "add_student"
    /\ raised = "IntegrityError"
    /\ ret = BoolV(FALSE)
    /\ \E k \in 1..Len(table) :
          /\ table[k].roll_no = arg
          /\ table[k].name # lastAdded.val.name
          /\ table[k].marks # lastAdded.val.marks

\* C5: no two stored records have the same roll number, in either manager.
C5_RollNoUnique ==
    \A j, k \in 1..Len(Store) : j # k => Store[j].roll_no # Store[k].roll_no

\* C6: the statistics get_subject_wise_stats prints partition the store by
\* subject: one group per subject that occurs, each holding the records of its
\* subject (at least one), the counts adding up to the number of records.
C6_StatsPartition ==
    (op = "get_subject_wise_stats" /\ Succeeded) =>
        /\ \A j, k \in 1..Len(printed) :
              j # k => printed[j].subject # printed[k].subject
        /\ \A k \in 1..Len(printed) :
              /\ printed[k].count >= 1
              /\ printed[k].count =
                    Cardinality({i \in 1..Len(Store) :
                                    Store[i].subject = printed[k].subject})
        /\ \A i \in 1..Len(Store) :
              \E k \in 1..Len(printed) : printed[k].subject = Store[i].subject
        /\ SumSeq([k \in 1..Len(printed) |-> printed[k].count]) = Len(Store)

C6_Witness ==
    /\ op = "get_subject_wise_stats"
    /\ Len(Store) = MaxLen
    /\ Len(printed) = 2
    /\ \E k \in 1..Len(printed) : printed[k].count >= 2

FirstOfLargest(seq) ==
    seq[CHOOSE k \in 1..Len(seq) :
           /\ \A j \in 1..Len(seq) : seq[j].marks <= seq[k].marks
           /\ \A j \in 1..(k - 1) : seq[j].marks < seq[k].marks]

\* C8: among records with the largest marks find_highest_marks returns the one
\* that comes first in the store's enumeration order.
C8_TieBreakFirst ==
    (op = "find_highest_marks" /\ Store # <<>> /\ Succeeded) =>
        ret.kind = "student" /\ ret.val = FirstOfLargest(Enumeration)

\* Every call main() makes on the manager when nothing stops it.
FullBatch ==
    [k \in 1..Len(sample_students) |-> "add_student"] \o
    <<"display_all_students", "find_highest_marks", "calculate_average_marks",
      "get_subject_wise_stats", "close_connection">>

Ended == pc \in {"returned", "crashed", "done"}

\* C9: no failure is fatal to the batch: when main() has ended, every insert
\* and every query of the batch has been executed.
C9_NoFailureIsFatal == Ended => executed = FullBatch

\* C9, amended: with a cursor obtained, main() executes the whole batch and
\* ends, whatever Errors the calls catch; without a connection it returns
\* before the first call; with a connection and no cursor the first
\* add_student ends it with an AttributeError.
C9_FatalOnlyWithoutCursor ==
    /\ [](/\ pc = "done" => executed = FullBatch
          /\ pc = "returned" => ~connection /\ executed = <<>>
          /\ pc = "crashed" =>
                connection /\ ~cursor /\ executed = <<"add_student">>)
    /\ <>Ended

\* The batch ran to its end although inserts failed and the aggregates found
\* an empty table.
C9_Witness ==
    /\ pc = "done"
    /\ executed = FullBatch
    /\ success_count = 0
    /\ table = <<>>
    /\ hasTable

\* C10: in memory, add_student appends its record to the list and never fails;
\* no other method changes the list; a query called again returns the same.
C10_AppendOnly ==
    [][mode = "memory" =>
          /\ op' = "add_student" =>
                /\ Len(students') = Len(students) + 1
                /\ \A k \in 1..Len(students) : students'[k] = students[k]
                /\ students'[Len(students')] = lastAdded'.val
                /\ ret' = NoneV /\ raised' = "none"
          /\ op' # "add_student" => students' = students
          /\ (op' # "add_student" /\ op' = op /\ arg' = arg) =>
                ret' = ret /\ printed' = printed]_vars

C10_Witness ==
    /\ mode = "memory"
    /\ op = "add_student"
    /\ Len(students) = MaxLen
    /\ students[1].roll_no = students[MaxLen].roll_no
    /\ students[1] # students[MaxLen]

====
